---------------------------- MODULE Spec2Model ----------------------------
(***************************************************************************)
(* The persistent control connection of the libp2p daemon                  *)
(* (persistent_stream.go): sessions, their per-request goroutines, the     *)
(* inbound stream handlers the Host runs, and the remote ends of the       *)
(* streams.  One action is one step of one goroutine between two accesses  *)
(* to shared state (a mutex-protected section, a sync.Map operation, a     *)
(* channel operation, a stream or duplex operation).                       *)
(***************************************************************************)
EXTENDS Naturals, Integers, Sequences, FiniteSets, TLC

VARIABLES
    sess,                      \* session -> "idle" | "live" | "closing" | "ended"
    streamHandlers,            \* session -> protocols appended to its streamHandlers
    registeredUnaryProtocols,  \* daemon -> protocol -> BOOLEAN   (d.registeredUnaryProtocols)
    hostHandlers,              \* daemon -> protocol -> session whose writer the handler holds
    everInstalled,             \* history: <<protocol, session>> pairs given to SetStreamHandler
    terminateWG,               \* daemon -> counter of d.terminateWG
    cancelUnary,               \* daemon -> call id -> worker owning the stored CancelFunc (0: absent)
    responseWaiters,           \* daemon -> call id -> handler owning the stored channel (0: absent)
    workers,                   \* the goroutines spawned by the read loops, in spawn order
    handlers,                  \* the stream handler invocations, in spawn order
    streams,                   \* the p2p streams, in creation order
    duplex,                    \* session -> frames handed to the session's safeWriter
    quota,                     \* requests and streams the clients and remote peers may still send
    dom,                       \* the alphabet the clients and remote peers draw from
    sw,                        \* session -> its safeWriter: the mutex m, the callers, the wire
    wd,                        \* daemon -> cancelTerminateTimer, terminateOnce, the idle timer
    dropped                    \* history: <<session, goroutines started before>> of each
                               \* request that the read loop dropped

vars == <<sess, streamHandlers, registeredUnaryProtocols, hostHandlers, everInstalled,
          terminateWG, cancelUnary, responseWaiters, workers, handlers, streams,
          duplex, quota, dom, sw, wd, dropped>>

---------------------------------------------------------------------------
(* Data *)

Daemons == {"A", "B"}
Sessions == {"s1", "s2", "s3"}
\* s1 and s2 are clients of daemon A, s3 is a client of daemon B
Home(s) == IF s = "s3" THEN "B" ELSE "A"

Protos == {"p1", "p2"}
CallIds == {"c1", "c2"}
\* a call_id that uuid.FromBytes rejects
BadCallId == "badid"
\* the call id of a frame that carries none
NoCall == "nocall"
\* a remote peer that is no daemon of the model
EnvPeer == "E"
\* peer bytes that peer.IDFromBytes rejects
BadPeer == "badpeer"
Payloads == {"x", "y"}
NoPay == "nopay"
NoSess == "nosess"
NoProto == "noproto"
NoMsg == [call |-> NoCall, peer |-> BadPeer, proto |-> NoProto, pay |-> NoPay, kind |-> "none"]

Kinds == {"AddUnaryHandler", "CallUnary", "UnaryResponse", "Cancel"}

---------------------------------------------------------------------------
(* The idle watchdog and the safeWriter *)

\* the watchdog of a daemon started with idle_timeout = 0: KillOnTimeout is
\* not called (main.go line 377), cancelTerminateTimer is nil
NoWatchdog ==
    [cancelTerminateTimer |-> FALSE, armed |-> FALSE, terminateOnce |-> FALSE,
     pc |-> "none", exited |-> FALSE]

\* no goroutine holds the mutex of the safeWriter
NoTask == <<"none", 0>>

\* the goroutines that may call WriteMsg on the writer of a session: those of
\* an AddUnaryHandler, a CallUnary and a UnaryResponse request and a stream handler
Writers == {<<"w", 1>>, <<"w", 2>>, <<"w", 3>>, <<"h", 1>>}

\* a safeWriter that none of its holders is using
IdleWriter ==
    [m |-> NoTask, at |-> [t \in Writers |-> "idle"], left |-> [t \in Writers |-> 0],
     wire |-> <<>>]

---------------------------------------------------------------------------
(* Responses *)

\* the message of a response that is no DaemonError
NoErr == <<>>
\* err.Error() of a failed IDFromBytes, NewStream, WriteMsg or ReadMsg
Cause == <<"cause">>
\* fmt.Sprintf("handler for protocol %s already set", *req.Proto)
AlreadySet(proto) == <<"handler for protocol", proto, "already set">>
\* fmt.Sprintf("Response for call id %d not requested or cancelled", callID)
NotRequested(callID) == <<"Response for call id", callID, "not requested or cancelled">>

okUnaryCallResponse(callID) ==
    [kind |-> "Ok", call |-> callID, pay |-> NoPay, msg |-> NoErr]

errorUnaryCall(callID) ==
    [kind |-> "DaemonError", call |-> callID, pay |-> NoPay, msg |-> Cause]

errorUnaryCallString(callID, errMsg) ==
    [kind |-> "DaemonError", call |-> callID, pay |-> NoPay, msg |-> errMsg]

okCancelled(callID) ==
    [kind |-> "Cancel", call |-> callID, pay |-> NoPay, msg |-> NoErr]

CallUnaryResponse(callID, payload) ==
    [kind |-> "CallUnaryResponse", call |-> callID, pay |-> payload, msg |-> NoErr]

\* the nil *pb.PersistentConnectionResponse a receive from the closed channel yields
NilResponse == [kind |-> "Nil", call |-> NoCall, pay |-> NoPay, msg |-> NoErr]

NoResp == [kind |-> "none", call |-> NoCall, pay |-> NoPay, msg |-> NoErr]

---------------------------------------------------------------------------
(* Goroutines *)

StartPc(kind) ==
    CASE kind = "AddUnaryHandler" -> "add"
      [] kind = "CallUnary" -> "store"
      [] kind = "UnaryResponse" -> "lookup"
      [] kind = "Cancel" -> "load"

WorkerIds == 1 .. Len(workers)
HandlerIds == 1 .. Len(handlers)
StreamIds == 1 .. Len(streams)

WorkersOf(kind) == {w \in WorkerIds : workers[w].kind = kind}

\* frames handed to WriteMsg by goroutine `by` of session s
FramesBy(s, by) == {f \in duplex[s] : f.by = by}

\* the client of s has been sent Cancel for callID (history, for the claims
\* about requests sent after it)
CancelSeen(s, callID) ==
    \E f \in duplex[s] : f.kind = "Cancel" /\ f.call = callID /\ f.ok

\* the goroutine of lines 57, 76, 92 or 101, with the req and callID it closes
\* over; late records whether the request was read after a Cancel for its call id
NewWorker(kind, s, callID, proto, peer, pay) ==
    [kind |-> kind, sess |-> s, call |-> callID, proto |-> proto, peer |-> peer,
     pay |-> pay, pc |-> StartPc(kind), resp |-> NoResp, st |-> 0,
     xpc |-> "none", rpay |-> NoPay, ctxDone |-> FALSE, tgt |-> 0,
     late |-> (kind = "UnaryResponse" /\ CancelSeen(s, callID))]


Frame(resp, by, peer, proto, ok) ==
    [kind |-> resp.kind, call |-> resp.call, pay |-> resp.pay, msg |-> resp.msg,
     peer |-> peer, proto |-> proto, by |-> by, ok |-> ok]

\* The outcomes of a write to the client connection: it succeeds while the
\* read loop runs; once the loop has returned the connection may be closed.
WriteOutcomes(s) == IF sess[s] = "live" THEN {TRUE} ELSE {TRUE, FALSE}

\* safeWriter.WriteMsg: the frame is written whole under sw.m
WriteMsg(s, resp, by, peer, proto, ok) ==
    duplex' = [duplex EXCEPT ![s] = @ \cup {Frame(resp, by, peer, proto, ok)}]

---------------------------------------------------------------------------
(* The read loop of a session: handleUpgradedConn *)

\* lines 32-34 and 39: a non-nil cancelTerminateTimer is called, and the first
\* session ever starts the goroutine of awaitTermination
StartSession(t) ==
    [t EXCEPT !.armed = IF t.cancelTerminateTimer THEN FALSE ELSE @,
              !.terminateOnce = TRUE,
              !.pc = IF t.terminateOnce THEN @ ELSE "wait"]

\* lines 32-41: the session starts
Connect(s) ==
    /\ sess[s] = "idle"
    /\ s \in dom.sessions
    /\ ~wd[Home(s)].exited
    /\ sess' = [sess EXCEPT ![s] = "live"]
    /\ terminateWG' = [terminateWG EXCEPT ![Home(s)] = @ + 1]
    /\ wd' = [wd EXCEPT ![Home(s)] = StartSession(@)]
    /\ UNCHANGED <<streamHandlers, registeredUnaryProtocols, hostHandlers, everInstalled,
                   cancelUnary, responseWaiters, workers, handlers, streams, duplex,
                   quota, dom, sw, dropped>>

\* Dispatch with a return in place of the continue of line 52
DispatchReturnsOnBadId(s, kind, callID, proto, peer, pay) ==
    /\ sess[s] = "live"
    /\ quota > 0
    /\ kind \in dom.kinds[s]
    /\ quota' = quota - 1
    /\ IF callID = BadCallId
       THEN /\ dropped' = dropped \cup {<<s, Len(workers)>>}
            /\ sess' = [sess EXCEPT ![s] = "closing"]
            /\ terminateWG' = [terminateWG EXCEPT ![Home(s)] = @ - 1]
            /\ UNCHANGED workers
       ELSE /\ workers' = Append(workers, NewWorker(kind, s, callID, proto, peer, pay))
            /\ UNCHANGED <<dropped, sess, terminateWG>>
    /\ UNCHANGED <<streamHandlers, registeredUnaryProtocols, hostHandlers,
                   everInstalled, cancelUnary, responseWaiters, handlers,
                   streams, duplex, dom, sw, wd>>

\* lines 42-110: one request is read; a malformed call id drops it, otherwise
\* its goroutine is spawned
Dispatch(s, kind, callID, proto, peer, pay) ==
    /\ sess[s] = "live"
    /\ quota > 0
    /\ kind \in dom.kinds[s]
    /\ quota' = quota - 1
    /\ IF callID = BadCallId
       THEN /\ dropped' = dropped \cup {<<s, Len(workers)>>}
            /\ UNCHANGED workers
       ELSE /\ workers' = Append(workers, NewWorker(kind, s, callID, proto, peer, pay))
            /\ UNCHANGED dropped
    /\ UNCHANGED <<sess, streamHandlers, registeredUnaryProtocols, hostHandlers,
                   everInstalled, terminateWG, cancelUnary, responseWaiters, handlers,
                   streams, duplex, dom, sw, wd>>

ReadAddUnaryHandler(s) ==
    \E callID \in dom.calls, proto \in dom.protos :
        Dispatch(s, "AddUnaryHandler", callID, proto, BadPeer, NoPay)

ReadCallUnary(s) ==
    \E callID \in dom.calls, proto \in dom.callProtos, peer \in dom.peers,
       pay \in dom.reqPays :
        Dispatch(s, "CallUnary", callID, proto, peer, pay)

ReadUnaryResponse(s) ==
    \E callID \in dom.calls, pay \in dom.respPays :
        Dispatch(s, "UnaryResponse", callID, NoProto, BadPeer, pay)

ReadCancel(s) ==
    \E callID \in dom.calls :
        Dispatch(s, "Cancel", callID, NoProto, BadPeer, NoPay)

\* ReadErr without the deferred terminateWG.Done of line 37
ReadErrNoDone(s) ==
    /\ sess[s] = "live"
    /\ ~wd[Home(s)].exited
    /\ sess' = [sess EXCEPT ![s] = "closing"]
    /\ UNCHANGED <<streamHandlers, registeredUnaryProtocols, hostHandlers, everInstalled,
                   terminateWG, cancelUnary, responseWaiters, workers, handlers, streams,
                   duplex, quota, dom, sw, wd, dropped>>

\* lines 44-47 and the deferred terminateWG.Done of line 37: ReadMsg fails
ReadErr(s) ==
    /\ sess[s] = "live"
    /\ ~wd[Home(s)].exited
    /\ sess' = [sess EXCEPT ![s] = "closing"]
    /\ terminateWG' = [terminateWG EXCEPT ![Home(s)] = @ - 1]
    /\ UNCHANGED <<streamHandlers, registeredUnaryProtocols, hostHandlers, everInstalled,
                   cancelUnary, responseWaiters, workers, handlers, streams, duplex,
                   quota, dom, sw, wd, dropped>>

\* lines 21-30: the deferred cleanup, one critical section of d.mx
Cleanup(s) ==
    /\ sess[s] = "closing"
    /\ ~wd[Home(s)].exited
    /\ sess' = [sess EXCEPT ![s] = "ended"]
    /\ hostHandlers' = [hostHandlers EXCEPT ![Home(s)] =
           [p \in Protos |-> IF p \in streamHandlers[s] THEN NoSess ELSE @[p]]]
    /\ registeredUnaryProtocols' = [registeredUnaryProtocols EXCEPT ![Home(s)] =
           [p \in Protos |-> IF p \in streamHandlers[s] THEN FALSE ELSE @[p]]]
    /\ UNCHANGED <<streamHandlers, everInstalled, terminateWG, cancelUnary,
                   responseWaiters, workers, handlers, streams, duplex, quota, dom, sw, wd, dropped>>

---------------------------------------------------------------------------
(* The AddUnaryHandler goroutine: lines 57-73 *)

\* doAddUnaryHandler without the test of line 118
doAddUnaryHandlerNoCheck(w) ==
    LET d == Home(workers[w].sess)
        p == workers[w].proto
    IN  /\ hostHandlers' = [hostHandlers EXCEPT ![d][p] = workers[w].sess]
        /\ everInstalled' = everInstalled \cup {<<p, workers[w].sess>>}
        /\ registeredUnaryProtocols' = [registeredUnaryProtocols EXCEPT ![d][p] = TRUE]
        /\ workers' = [workers EXCEPT ![w].resp = okUnaryCallResponse(workers[w].call),
                                      ![w].pc = "append"]

\* doAddUnaryHandler without the SetStreamHandler of line 125
doAddUnaryHandlerNoInstall(w) ==
    LET d == Home(workers[w].sess)
        p == workers[w].proto
    IN  IF registeredUnaryProtocols[d][p]
        THEN /\ workers' = [workers EXCEPT
                             ![w].resp = errorUnaryCallString(workers[w].call, AlreadySet(p)),
                             ![w].pc = "append"]
             /\ UNCHANGED <<hostHandlers, registeredUnaryProtocols, everInstalled>>
        ELSE /\ registeredUnaryProtocols' = [registeredUnaryProtocols EXCEPT ![d][p] = TRUE]
             /\ workers' = [workers EXCEPT ![w].resp = okUnaryCallResponse(workers[w].call),
                                           ![w].pc = "append"]
             /\ UNCHANGED <<hostHandlers, everInstalled>>

\* doAddUnaryHandler with SetStreamHandler moved before the test of line 118
doAddUnaryHandlerInstallFirst(w) ==
    LET d == Home(workers[w].sess)
        p == workers[w].proto
    IN  /\ hostHandlers' = [hostHandlers EXCEPT ![d][p] = workers[w].sess]
        /\ everInstalled' = everInstalled \cup {<<p, workers[w].sess>>}
        /\ IF registeredUnaryProtocols[d][p]
           THEN /\ workers' = [workers EXCEPT
                             ![w].resp = errorUnaryCallString(workers[w].call, AlreadySet(p)),
                             ![w].pc = "append"]
                /\ UNCHANGED registeredUnaryProtocols
           ELSE /\ registeredUnaryProtocols' =
                       [registeredUnaryProtocols EXCEPT ![d][p] = TRUE]
                /\ workers' = [workers EXCEPT
                             ![w].resp = okUnaryCallResponse(workers[w].call),
                             ![w].pc = "append"]

\* lines 113-131, one critical section of d.mx
doAddUnaryHandler(w) ==
    LET d == Home(workers[w].sess)
        p == workers[w].proto
    IN  IF registeredUnaryProtocols[d][p]
        THEN /\ workers' = [workers EXCEPT
                             ![w].resp = errorUnaryCallString(workers[w].call, AlreadySet(p)),
                             ![w].pc = "append"]
             /\ UNCHANGED <<hostHandlers, registeredUnaryProtocols, everInstalled>>
        ELSE /\ hostHandlers' = [hostHandlers EXCEPT ![d][p] = workers[w].sess]
             /\ everInstalled' = everInstalled \cup {<<p, workers[w].sess>>}
             /\ registeredUnaryProtocols' = [registeredUnaryProtocols EXCEPT ![d][p] = TRUE]
             /\ workers' = [workers EXCEPT ![w].resp = okUnaryCallResponse(workers[w].call),
                                           ![w].pc = "append"]

AddHandler(w) ==
    /\ workers[w].kind = "AddUnaryHandler"
    /\ workers[w].pc = "add"
    /\ doAddUnaryHandler(w)
    /\ UNCHANGED <<sess, streamHandlers, terminateWG, cancelUnary, responseWaiters,
                   handlers, streams, duplex, quota, dom, sw, wd, dropped>>

\* lines 60-67: the protocol joins the session's streamHandlers unless the
\* response is a DaemonError
AppendStreamHandler(w) ==
    /\ workers[w].kind = "AddUnaryHandler"
    /\ workers[w].pc = "append"
    /\ streamHandlers' =
           IF workers[w].resp.kind # "DaemonError"
           THEN [streamHandlers EXCEPT ![workers[w].sess] = @ \cup {workers[w].proto}]
           ELSE streamHandlers
    /\ workers' = [workers EXCEPT ![w].pc = "write"]
    /\ UNCHANGED <<sess, registeredUnaryProtocols, hostHandlers, everInstalled,
                   terminateWG, cancelUnary, responseWaiters, handlers, streams, duplex,
                   quota, dom, sw, wd, dropped>>

\* lines 69-72 and 94-97: the response is written and the goroutine ends
WriteResponse(w) ==
    /\ workers[w].kind \in {"AddUnaryHandler", "UnaryResponse"}
    /\ workers[w].pc = "write"
    /\ \E ok \in WriteOutcomes(workers[w].sess) :
           WriteMsg(workers[w].sess, workers[w].resp, <<"w", w>>, BadPeer, NoProto, ok)
    /\ workers' = [workers EXCEPT ![w].pc = "done"]
    /\ UNCHANGED <<sess, streamHandlers, registeredUnaryProtocols, hostHandlers,
                   everInstalled, terminateWG, cancelUnary, responseWaiters, handlers,
                   streams, quota, dom, sw, wd, dropped>>

---------------------------------------------------------------------------
(* Streams between peers *)

\* the PersistentConnectionRequest a peer puts on the wire
WireMsg(kind, callID, peer, proto, pay) ==
    [call |-> callID, peer |-> peer, proto |-> proto, pay |-> pay, kind |-> kind]

NewStreamRec(caller, callee, callerPeer, proto, req) ==
    [caller |-> caller, callee |-> callee, callerPeer |-> callerPeer, proto |-> proto,
     req |-> req, resp |-> NoMsg, callerClosed |-> FALSE, calleeClosed |-> FALSE]

\* the invocation of the handler of getPersistentStreamHandler(cw) on stream st,
\* cw being the writer of session s
NewHandler(d, s, st) ==
    [d |-> d, sess |-> s, st |-> st, pc |-> "read", call |-> NoCall, peer |-> BadPeer,
     proto |-> NoProto, pay |-> NoPay, rpay |-> NoPay, apc |-> "none"]

---------------------------------------------------------------------------
(* The CallUnary goroutine: lines 76-89 *)

\* lines 77-81: the CancelFunc is stored under the call id
CallStore(w) ==
    /\ workers[w].kind = "CallUnary"
    /\ workers[w].pc = "store"
    /\ cancelUnary' = [cancelUnary EXCEPT ![Home(workers[w].sess)][workers[w].call] = w]
    /\ workers' = [workers EXCEPT ![w].pc = "open"]
    /\ UNCHANGED <<sess, streamHandlers, registeredUnaryProtocols, hostHandlers,
                   everInstalled, terminateWG, responseWaiters, handlers, streams, duplex,
                   quota, dom, sw, wd, dropped>>

\* doUnaryCall returns errorUnaryCall: lines 135-137 and 144-146
CallFail(w) ==
    /\ workers' = [workers EXCEPT ![w].resp = errorUnaryCall(workers[w].call),
                                  ![w].pc = "write"]
    /\ UNCHANGED <<streams, handlers>>

\* lines 139-150: the stream is open and exchangeMessages has started its goroutine
CallOpened(w, callee) ==
    /\ streams' = Append(streams,
           NewStreamRec("worker", callee, Home(workers[w].sess), workers[w].proto, NoMsg))
    /\ workers' = [workers EXCEPT ![w].st = Len(streams) + 1, ![w].pc = "select",
                                  ![w].xpc = "write"]

\* lines 134-150: peer.IDFromBytes and host.NewStream.  A stream to another
\* daemon of the model needs a handler installed there, and starts it; a
\* stream to a peer outside the model opens or not as that peer decides.
doUnaryCall(w) ==
    LET peer == workers[w].peer
        me == Home(workers[w].sess)
    IN  CASE peer = BadPeer -> CallFail(w)
          [] peer = EnvPeer ->
                \/ CallFail(w)
                \/ CallOpened(w, "env") /\ UNCHANGED handlers
          [] peer = me -> CallFail(w)
          [] OTHER ->
                IF hostHandlers[peer][workers[w].proto] = NoSess
                THEN CallFail(w)
                ELSE /\ CallOpened(w, "handler")
                     /\ handlers' = Append(handlers,
                            NewHandler(peer, hostHandlers[peer][workers[w].proto],
                                       Len(streams) + 1))

CallOpen(w) ==
    /\ workers[w].kind = "CallUnary"
    /\ workers[w].pc = "open"
    /\ doUnaryCall(w)
    /\ UNCHANGED <<sess, streamHandlers, registeredUnaryProtocols, hostHandlers,
                   everInstalled, terminateWG, cancelUnary, responseWaiters, duplex,
                   quota, dom, sw, wd, dropped>>

\* what the select of lines 149-155 may return: a value the exchangeMessages
\* goroutine is sending, the zero value of its closed channel, or okCancelled
\* once ctx is done
SelectOutcomes(w) ==
    (IF workers[w].xpc = "senderr" THEN {errorUnaryCall(workers[w].call)} ELSE {})
    \cup (IF workers[w].xpc = "send"
          THEN {CallUnaryResponse(workers[w].call, workers[w].rpay)} ELSE {})
    \cup (IF workers[w].xpc = "closed" THEN {NilResponse} ELSE {})
    \cup (IF workers[w].ctxDone THEN {okCancelled(workers[w].call)} ELSE {})

\* lines 147-155: the select, then the deferred remoteStream.Close()
CallSelect(w) ==
    /\ workers[w].kind = "CallUnary"
    /\ workers[w].pc = "select"
    /\ \E r \in SelectOutcomes(w) :
           workers' = [workers EXCEPT
               ![w].resp = r, ![w].pc = "write",
               ![w].xpc = IF r.kind \in {"DaemonError", "CallUnaryResponse"}
                          THEN "closed" ELSE @]
    /\ streams' = [streams EXCEPT ![workers[w].st].callerClosed = TRUE]
    /\ UNCHANGED <<sess, streamHandlers, registeredUnaryProtocols, hostHandlers,
                   everInstalled, terminateWG, cancelUnary, responseWaiters, handlers,
                   duplex, quota, dom, sw, wd, dropped>>

\* The outcomes of writing resp: a nil message is either refused by the
\* writer or written as an empty frame.
CallWriteOutcomes(w) ==
    IF workers[w].resp.kind = "Nil" THEN {TRUE, FALSE} ELSE WriteOutcomes(workers[w].sess)

\* lines 85-88
CallWrite(w) ==
    /\ workers[w].kind = "CallUnary"
    /\ workers[w].pc = "write"
    /\ \E ok \in CallWriteOutcomes(w) :
           WriteMsg(workers[w].sess, workers[w].resp, <<"w", w>>, BadPeer, NoProto, ok)
    /\ workers' = [workers EXCEPT ![w].pc = "exit"]
    /\ UNCHANGED <<sess, streamHandlers, registeredUnaryProtocols, hostHandlers,
                   everInstalled, terminateWG, cancelUnary, responseWaiters, handlers,
                   streams, quota, dom, sw, wd, dropped>>

\* lines 79-81, deferred: d.cancelUnary.Delete(callID), then cancel()
\* CallExit without the deferred Delete of line 81
CallExitNoDelete(w) ==
    /\ workers[w].kind = "CallUnary"
    /\ workers[w].pc = "exit"
    /\ workers' = [workers EXCEPT ![w].pc = "done", ![w].ctxDone = TRUE]
    /\ UNCHANGED <<sess, streamHandlers, registeredUnaryProtocols, hostHandlers,
                   everInstalled, terminateWG, cancelUnary, responseWaiters, handlers, streams, duplex,
                   quota, dom, sw, wd, dropped>>

CallExit(w) ==
    /\ workers[w].kind = "CallUnary"
    /\ workers[w].pc = "exit"
    /\ cancelUnary' = [cancelUnary EXCEPT ![Home(workers[w].sess)][workers[w].call] = 0]
    /\ workers' = [workers EXCEPT ![w].pc = "done", ![w].ctxDone = TRUE]
    /\ UNCHANGED <<sess, streamHandlers, registeredUnaryProtocols, hostHandlers,
                   everInstalled, terminateWG, responseWaiters, handlers, streams, duplex,
                   quota, dom, sw, wd, dropped>>

---------------------------------------------------------------------------
(* The goroutine of exchangeMessages: lines 162-192 *)

StreamBroken(st) == streams[st].callerClosed \/ streams[st].calleeClosed

\* line 165 and line 173, after the semicolon: ctx.Err() decides first, then
\* the error of the stream operation
AfterIO(w, err, next) ==
    IF workers[w].ctxDone THEN "closed"
    ELSE IF err THEN "senderr"
    ELSE next

\* lines 165-170: WriteMsg(req) returns and its outcome is examined.  The
\* stream operation and the examination are one step: between them the
\* goroutine touches nothing shared, and a stream that is broken stays broken.
ExchangeWrite(w) ==
    /\ workers[w].kind = "CallUnary"
    /\ workers[w].xpc = "write"
    /\ LET st == workers[w].st
           err == StreamBroken(st)
       IN  /\ workers' = [workers EXCEPT ![w].xpc = AfterIO(w, err, "read")]
           /\ streams' = IF err THEN streams
                         ELSE [streams EXCEPT ![st].req =
                                  WireMsg("CallUnary", workers[w].call, workers[w].peer,
                                          workers[w].proto, workers[w].pay)]
    /\ UNCHANGED <<sess, streamHandlers, registeredUnaryProtocols, hostHandlers,
                   everInstalled, terminateWG, cancelUnary, responseWaiters, handlers,
                   duplex, quota, dom, sw, wd, dropped>>

\* lines 172-183: ReadMsg(remoteResp) returns, with the response or with an
\* error, and its outcome is examined
ExchangeRead(w) ==
    /\ workers[w].kind = "CallUnary"
    /\ workers[w].xpc = "read"
    /\ LET st == workers[w].st
       IN  IF streams[st].resp # NoMsg
           THEN workers' = [workers EXCEPT ![w].xpc = AfterIO(w, FALSE, "send"),
                                           ![w].rpay = streams[st].resp.pay]
           ELSE /\ StreamBroken(st)
                /\ workers' = [workers EXCEPT ![w].xpc = AfterIO(w, TRUE, "send")]
    /\ UNCHANGED <<sess, streamHandlers, registeredUnaryProtocols, hostHandlers,
                   everInstalled, terminateWG, cancelUnary, responseWaiters, handlers,
                   streams, duplex, quota, dom, sw, wd, dropped>>

\* lines 185-191: the ctx.Done() case of the final select
ExchangeGiveUp(w) ==
    /\ workers[w].kind = "CallUnary"
    /\ workers[w].xpc = "send"
    /\ workers[w].ctxDone
    /\ workers' = [workers EXCEPT ![w].xpc = "closed"]
    /\ UNCHANGED <<sess, streamHandlers, registeredUnaryProtocols, hostHandlers,
                   everInstalled, terminateWG, cancelUnary, responseWaiters, handlers,
                   streams, duplex, quota, dom, sw, wd, dropped>>

---------------------------------------------------------------------------
(* The Cancel goroutine: lines 101-108 *)

\* CancelLoad answering the client itself when it finds no CancelFunc
CancelLoadReplies(w) ==
    /\ workers[w].kind = "Cancel"
    /\ workers[w].pc = "load"
    /\ LET cf == cancelUnary[Home(workers[w].sess)][workers[w].call]
       IN  /\ workers' = [workers EXCEPT ![w].tgt = cf,
                                         ![w].pc = IF cf = 0 THEN "done" ELSE "fire"]
           /\ IF cf = 0
              THEN WriteMsg(workers[w].sess, okCancelled(workers[w].call), <<"w", w>>,
                            BadPeer, NoProto, TRUE)
              ELSE UNCHANGED duplex
    /\ UNCHANGED <<sess, streamHandlers, registeredUnaryProtocols, hostHandlers,
                   everInstalled, terminateWG, cancelUnary, responseWaiters, handlers,
                   streams, quota, dom, sw, wd, dropped>>

\* lines 102-105
CancelLoad(w) ==
    /\ workers[w].kind = "Cancel"
    /\ workers[w].pc = "load"
    /\ LET cf == cancelUnary[Home(workers[w].sess)][workers[w].call]
       IN  workers' = [workers EXCEPT ![w].tgt = cf,
                                      ![w].pc = IF cf = 0 THEN "done" ELSE "fire"]
    /\ UNCHANGED <<sess, streamHandlers, registeredUnaryProtocols, hostHandlers,
                   everInstalled, terminateWG, cancelUnary, responseWaiters, handlers,
                   streams, duplex, quota, dom, sw, wd, dropped>>

\* line 107
CancelFire(w) ==
    /\ workers[w].kind = "Cancel"
    /\ workers[w].pc = "fire"
    /\ workers' = [workers EXCEPT ![w].pc = "done", ![workers[w].tgt].ctxDone = TRUE]
    /\ UNCHANGED <<sess, streamHandlers, registeredUnaryProtocols, hostHandlers,
                   everInstalled, terminateWG, cancelUnary, responseWaiters, handlers,
                   streams, duplex, quota, dom, sw, wd, dropped>>

---------------------------------------------------------------------------
(* The UnaryResponse goroutine: lines 92-98 *)

\* lines 288-294: the channel of the call id is looked up
doSendReponseToRemote(w) ==
    LET rc == responseWaiters[Home(workers[w].sess)][workers[w].call]
    IN  IF rc = 0
        THEN workers' = [workers EXCEPT
                        ![w].resp = errorUnaryCallString(workers[w].call,
                                                         NotRequested(workers[w].call)),
                        ![w].pc = "write"]
        ELSE workers' = [workers EXCEPT ![w].tgt = rc, ![w].pc = "send"]

ResponseLookup(w) ==
    /\ workers[w].kind = "UnaryResponse"
    /\ workers[w].pc = "lookup"
    /\ doSendReponseToRemote(w)
    /\ UNCHANGED <<sess, streamHandlers, registeredUnaryProtocols, hostHandlers,
                   everInstalled, terminateWG, cancelUnary, responseWaiters, handlers,
                   streams, duplex, quota, dom, sw, wd, dropped>>

---------------------------------------------------------------------------
(* The stream handler of getPersistentStreamHandler: lines 220-276 *)

\* HandlerRead without the overwrite of line 230: the peer field stays as sent
HandlerReadWirePeer(h) ==
    /\ handlers[h].pc = "read"
    /\ LET st == handlers[h].st
           req == streams[st].req
       IN  IF req # NoMsg
           THEN IF req.call = BadCallId
                THEN /\ handlers' = [handlers EXCEPT ![h].pc = "done"]
                     /\ streams' = [streams EXCEPT ![st].calleeClosed = TRUE]
                ELSE /\ handlers' = [handlers EXCEPT
                            ![h].pc = "store", ![h].call = req.call,
                            ![h].peer = req.peer,
                            ![h].proto = req.proto, ![h].pay = req.pay]
                     /\ UNCHANGED streams
           ELSE /\ streams[st].callerClosed
                /\ handlers' = [handlers EXCEPT ![h].pc = "done"]
                /\ streams' = [streams EXCEPT ![st].calleeClosed = TRUE]
    /\ UNCHANGED <<sess, streamHandlers, registeredUnaryProtocols, hostHandlers,
                   everInstalled, terminateWG, cancelUnary, responseWaiters, workers,
                   duplex, quota, dom, sw, wd, dropped>>

\* lines 223-236 (and the deferred s.Close() of line 221 when the handler
\* returns here): the request is read, its peer field overwritten with the
\* remote peer of the connection, its call id parsed
HandlerRead(h) ==
    /\ handlers[h].pc = "read"
    /\ LET st == handlers[h].st
           req == streams[st].req
       IN  IF req # NoMsg
           THEN IF req.call = BadCallId
                THEN /\ handlers' = [handlers EXCEPT ![h].pc = "done"]
                     /\ streams' = [streams EXCEPT ![st].calleeClosed = TRUE]
                ELSE /\ handlers' = [handlers EXCEPT
                            ![h].pc = "store", ![h].call = req.call,
                            ![h].peer = streams[st].callerPeer,
                            ![h].proto = req.proto, ![h].pay = req.pay]
                     /\ UNCHANGED streams
           ELSE /\ streams[st].callerClosed
                /\ handlers' = [handlers EXCEPT ![h].pc = "done"]
                /\ streams' = [streams EXCEPT ![st].calleeClosed = TRUE]
    /\ UNCHANGED <<sess, streamHandlers, registeredUnaryProtocols, hostHandlers,
                   everInstalled, terminateWG, cancelUnary, responseWaiters, workers,
                   duplex, quota, dom, sw, wd, dropped>>

\* lines 238-240: the channel is stored under the call id
HandlerStore(h) ==
    /\ handlers[h].pc = "store"
    /\ responseWaiters' = [responseWaiters EXCEPT ![handlers[h].d][handlers[h].call] = h]
    /\ handlers' = [handlers EXCEPT ![h].pc = "notify"]
    /\ UNCHANGED <<sess, streamHandlers, registeredUnaryProtocols, hostHandlers,
                   everInstalled, terminateWG, cancelUnary, workers, streams, duplex,
                   quota, dom, sw, wd, dropped>>

RequestHandling(h) ==
    [kind |-> "RequestHandling", call |-> handlers[h].call, pay |-> handlers[h].pay,
     msg |-> NoErr]

\* lines 245-257: RequestHandling is written to the client; the handler then
\* waits in the select, awaitReadFail's goroutine reading the stream
HandlerNotify(h) ==
    /\ handlers[h].pc = "notify"
    /\ \E ok \in WriteOutcomes(handlers[h].sess) :
           /\ WriteMsg(handlers[h].sess, RequestHandling(h), <<"h", h>>,
                       handlers[h].peer, handlers[h].proto, ok)
           /\ handlers' = IF ok
                          THEN [handlers EXCEPT ![h].pc = "select", ![h].apc = "read"]
                          ELSE [handlers EXCEPT ![h].pc = "exit"]
    /\ UNCHANGED <<sess, streamHandlers, registeredUnaryProtocols, hostHandlers,
                   everInstalled, terminateWG, cancelUnary, responseWaiters, workers,
                   streams, quota, dom, sw, wd, dropped>>

\* lines 256-257: the select receives from awaitReadFail's channel
HandlerReadFailed(h) ==
    /\ handlers[h].pc = "select"
    /\ handlers[h].apc = "send"
    /\ handlers' = [handlers EXCEPT ![h].pc = "cancel", ![h].apc = "closed"]
    /\ UNCHANGED <<sess, streamHandlers, registeredUnaryProtocols, hostHandlers,
                   everInstalled, terminateWG, cancelUnary, responseWaiters, workers,
                   streams, duplex, quota, dom, sw, wd, dropped>>

\* line 270 with lines 296-298: the select receives the request that the
\* UnaryResponse goroutine w sends on the channel it loaded
HandlerReceive(h, w) ==
    /\ handlers[h].pc = "select"
    /\ workers[w].kind = "UnaryResponse"
    /\ workers[w].pc = "send"
    /\ workers[w].tgt = h
    /\ handlers' = [handlers EXCEPT ![h].pc = "reply", ![h].rpay = workers[w].pay]
    /\ workers' = [workers EXCEPT ![w].pc = "write",
                                  ![w].resp = okUnaryCallResponse(workers[w].call)]
    /\ UNCHANGED <<sess, streamHandlers, registeredUnaryProtocols, hostHandlers,
                   everInstalled, terminateWG, cancelUnary, responseWaiters, streams,
                   duplex, quota, dom, sw, wd, dropped>>

\* lines 258-269: Cancel is written to the client
HandlerCancel(h) ==
    /\ handlers[h].pc = "cancel"
    /\ \E ok \in WriteOutcomes(handlers[h].sess) :
           WriteMsg(handlers[h].sess, okCancelled(handlers[h].call), <<"h", h>>,
                    BadPeer, NoProto, ok)
    /\ handlers' = [handlers EXCEPT ![h].pc = "exit"]
    /\ UNCHANGED <<sess, streamHandlers, registeredUnaryProtocols, hostHandlers,
                   everInstalled, terminateWG, cancelUnary, responseWaiters, workers,
                   streams, quota, dom, sw, wd, dropped>>

\* lines 271-274: the client's response is written to the remote stream
HandlerReply(h) ==
    /\ handlers[h].pc = "reply"
    /\ LET st == handlers[h].st
       IN  streams' = IF streams[st].callerClosed THEN streams
                      ELSE [streams EXCEPT ![st].resp =
                               WireMsg("UnaryResponse", handlers[h].call, BadPeer,
                                       NoProto, handlers[h].rpay)]
    /\ handlers' = [handlers EXCEPT ![h].pc = "exit"]
    /\ UNCHANGED <<sess, streamHandlers, registeredUnaryProtocols, hostHandlers,
                   everInstalled, terminateWG, cancelUnary, responseWaiters, workers,
                   duplex, quota, dom, sw, wd, dropped>>

\* the deferred calls of lines 243, 240 and 221: cancel(),
\* d.responseWaiters.Delete(callID), s.Close()
HandlerExit(h) ==
    /\ handlers[h].pc = "exit"
    /\ responseWaiters' = [responseWaiters EXCEPT ![handlers[h].d][handlers[h].call] = 0]
    /\ streams' = [streams EXCEPT ![handlers[h].st].calleeClosed = TRUE]
    /\ handlers' = [handlers EXCEPT ![h].pc = "done"]
    /\ UNCHANGED <<sess, streamHandlers, registeredUnaryProtocols, hostHandlers,
                   everInstalled, terminateWG, cancelUnary, workers, duplex, quota, dom, sw, wd, dropped>>

---------------------------------------------------------------------------
(* The goroutine of awaitReadFail: lines 202-212 *)

\* line 206: Read returns an error, the stream being closed by either end
AwaitReadReturns(h) ==
    /\ handlers[h].apc = "read"
    /\ StreamBroken(handlers[h].st)
    /\ handlers' = [handlers EXCEPT ![h].apc = "send"]
    /\ UNCHANGED <<sess, streamHandlers, registeredUnaryProtocols, hostHandlers,
                   everInstalled, terminateWG, cancelUnary, responseWaiters, workers,
                   streams, duplex, quota, dom, sw, wd, dropped>>

\* line 209: the handler has returned and its ctx is cancelled
AwaitGiveUp(h) ==
    /\ handlers[h].apc = "send"
    /\ handlers[h].pc = "done"
    /\ handlers' = [handlers EXCEPT ![h].apc = "closed"]
    /\ UNCHANGED <<sess, streamHandlers, registeredUnaryProtocols, hostHandlers,
                   everInstalled, terminateWG, cancelUnary, responseWaiters, workers,
                   streams, duplex, quota, dom, sw, wd, dropped>>

---------------------------------------------------------------------------
(* Remote peers outside the model *)

\* a remote peer opens a stream on a protocol that has a handler, and sends
\* its request (or nothing)
RemoteOpen(d, p, req) ==
    /\ hostHandlers[d][p] # NoSess
    /\ quota > 0
    /\ p \in dom.protos
    /\ quota' = quota - 1
    /\ streams' = Append(streams, NewStreamRec("env", "handler", EnvPeer, p, req))
    /\ handlers' = Append(handlers, NewHandler(d, hostHandlers[d][p], Len(streams) + 1))
    /\ UNCHANGED <<sess, streamHandlers, registeredUnaryProtocols, hostHandlers,
                   everInstalled, terminateWG, cancelUnary, responseWaiters, workers,
                   duplex, dom, sw, wd, dropped>>

\* the remote caller closes or resets its stream
RemoteHangUp(st) ==
    /\ streams[st].caller = "env"
    /\ ~streams[st].callerClosed
    /\ ~streams[st].calleeClosed
    /\ streams' = [streams EXCEPT ![st].callerClosed = TRUE]
    /\ UNCHANGED <<sess, streamHandlers, registeredUnaryProtocols, hostHandlers,
                   everInstalled, terminateWG, cancelUnary, responseWaiters, workers,
                   handlers, duplex, quota, dom, sw, wd, dropped>>

\* the remote callee answers the request it has received
RemoteReply(st, pay) ==
    /\ streams[st].callee = "env"
    /\ streams[st].req # NoMsg
    /\ streams[st].resp = NoMsg
    /\ ~streams[st].calleeClosed
    /\ ~streams[st].callerClosed
    /\ streams' = [streams EXCEPT ![st].resp =
           WireMsg("UnaryResponse", streams[st].req.call, BadPeer, NoProto, pay)]
    /\ UNCHANGED <<sess, streamHandlers, registeredUnaryProtocols, hostHandlers,
                   everInstalled, terminateWG, cancelUnary, responseWaiters, workers,
                   handlers, duplex, quota, dom, sw, wd, dropped>>

\* the remote callee closes or resets the stream without answering
RemoteFail(st) ==
    /\ streams[st].callee = "env"
    /\ streams[st].resp = NoMsg
    /\ ~streams[st].calleeClosed
    /\ ~streams[st].callerClosed
    /\ streams' = [streams EXCEPT ![st].calleeClosed = TRUE]
    /\ UNCHANGED <<sess, streamHandlers, registeredUnaryProtocols, hostHandlers,
                   everInstalled, terminateWG, cancelUnary, responseWaiters, workers,
                   handlers, duplex, quota, dom, sw, wd, dropped>>

---------------------------------------------------------------------------
(* safeWriter.WriteMsg: lines 301-310 *)

\* a stream handler bound to unsafeW, the writer that the session was given
WriterOfHandlerUnsafe(t) ==
    CASE t[1] = "w" -> "w"
      [] t[1] = "h" -> "unsafeW"

\* the writer that goroutine t calls WriteMsg on: w, the safeWriter of line 41,
\* for the goroutines of lines 57, 76 and 92, and cw for a stream handler,
\* which is the w given to doAddUnaryHandler at line 58 and bound at line 125
WriterOf(t) ==
    CASE t[1] = "w" -> "w"
      [] t[1] = "h" -> "w"

\* the frames a goroutine writes: one response, or RequestHandling and then
\* Cancel for a stream handler
FramesOf(t) == IF t[1] = "h" THEN {"RequestHandling", "Cancel"} ELSE {"response"}

\* goroutine t calls WriteMsg with its next frame
SwCall(s, t) ==
    /\ sess[s] # "idle"
    /\ sw[s].at[t] = "idle"
    /\ sw[s].left[t] > 0
    /\ sw' = [sw EXCEPT ![s].at[t] = "lock"]
    /\ UNCHANGED <<sess, streamHandlers, registeredUnaryProtocols, hostHandlers,
                   everInstalled, terminateWG, cancelUnary, responseWaiters, workers,
                   handlers, streams, duplex, quota, dom, wd, dropped>>

\* line 307: sw.m.Lock(); a caller that holds unsafeW goes straight to the write
SwLock(s, t) ==
    /\ sw[s].at[t] = "lock"
    /\ IF WriterOf(t) = "w"
       THEN /\ sw[s].m = NoTask
            /\ sw' = [sw EXCEPT ![s].m = t, ![s].at[t] = "head"]
       ELSE sw' = [sw EXCEPT ![s].at[t] = "head"]
    /\ UNCHANGED <<sess, streamHandlers, registeredUnaryProtocols, hostHandlers,
                   everInstalled, terminateWG, cancelUnary, responseWaiters, workers,
                   handlers, streams, duplex, quota, dom, wd, dropped>>

\* line 309: sw.w.WriteMsg(msg) puts the length prefix of the frame on the connection
SwWriteHead(s, t) ==
    /\ sw[s].at[t] = "head"
    /\ sw' = [sw EXCEPT ![s].at[t] = "body",
                        ![s].wire = Append(@, <<t, sw[s].left[t], "head">>)]
    /\ UNCHANGED <<sess, streamHandlers, registeredUnaryProtocols, hostHandlers,
                   everInstalled, terminateWG, cancelUnary, responseWaiters, workers,
                   handlers, streams, duplex, quota, dom, wd, dropped>>

\* line 309: then the bytes of the message
SwWriteBody(s, t) ==
    /\ sw[s].at[t] = "body"
    /\ sw' = [sw EXCEPT ![s].at[t] = "unlock",
                        ![s].wire = Append(@, <<t, sw[s].left[t], "body">>)]
    /\ UNCHANGED <<sess, streamHandlers, registeredUnaryProtocols, hostHandlers,
                   everInstalled, terminateWG, cancelUnary, responseWaiters, workers,
                   handlers, streams, duplex, quota, dom, wd, dropped>>

\* line 308, deferred: sw.m.Unlock(), and WriteMsg returns
SwUnlock(s, t) ==
    /\ sw[s].at[t] = "unlock"
    /\ sw' = [sw EXCEPT ![s].at[t] = "idle",
                        ![s].left[t] = @ - 1,
                        ![s].m = IF WriterOf(t) = "w" THEN NoTask ELSE @]
    /\ UNCHANGED <<sess, streamHandlers, registeredUnaryProtocols, hostHandlers,
                   everInstalled, terminateWG, cancelUnary, responseWaiters, workers,
                   handlers, streams, duplex, quota, dom, wd, dropped>>

---------------------------------------------------------------------------
(* The idle watchdog: KillOnTimeout and awaitTermination *)

\* KillOnTimeout(idleTimeout), called by main when idle_timeout > 0: the timer
\* is armed and cancelTerminateTimer is the function that cancels it
KillOnTimeout(t) == [t EXCEPT !.cancelTerminateTimer = TRUE, !.armed = TRUE]

\* awaitTermination: terminateWG.Wait() returns, the counter being zero
AwaitTermination(d) ==
    /\ wd[d].pc = "wait"
    /\ ~wd[d].exited
    /\ terminateWG[d] = 0
    /\ wd' = [wd EXCEPT ![d].pc = "arm"]
    /\ UNCHANGED <<sess, streamHandlers, registeredUnaryProtocols, hostHandlers,
                   everInstalled, terminateWG, cancelUnary, responseWaiters, workers,
                   handlers, streams, duplex, quota, dom, sw, dropped>>

\* awaitTermination: the timer is armed again, and the task waits anew
RearmTimer(d) ==
    /\ wd[d].pc = "arm"
    /\ ~wd[d].exited
    /\ wd' = [wd EXCEPT ![d] = [KillOnTimeout(@) EXCEPT !.pc = "wait"]]
    /\ UNCHANGED <<sess, streamHandlers, registeredUnaryProtocols, hostHandlers,
                   everInstalled, terminateWG, cancelUnary, responseWaiters, workers,
                   handlers, streams, duplex, quota, dom, sw, dropped>>

\* the armed timer fires: the daemon exits if the counter is zero
TimerFires(d) ==
    /\ wd[d].armed
    /\ ~wd[d].exited
    /\ wd' = [wd EXCEPT ![d].armed = FALSE, ![d].exited = (terminateWG[d] = 0)]
    /\ UNCHANGED <<sess, streamHandlers, registeredUnaryProtocols, hostHandlers,
                   everInstalled, terminateWG, cancelUnary, responseWaiters, workers,
                   handlers, streams, duplex, quota, dom, sw, dropped>>

---------------------------------------------------------------------------
(* Specifications *)

\* the state after NewDaemon: no session, no handler, empty registries
InitState ==
    /\ sess = [s \in Sessions |-> "idle"]
    /\ streamHandlers = [s \in Sessions |-> {}]
    /\ registeredUnaryProtocols = [d \in Daemons |-> [p \in Protos |-> FALSE]]
    /\ hostHandlers = [d \in Daemons |-> [p \in Protos |-> NoSess]]
    /\ everInstalled = {}
    /\ terminateWG = [d \in Daemons |-> 0]
    /\ cancelUnary = [d \in Daemons |-> [c \in CallIds |-> 0]]
    /\ responseWaiters = [d \in Daemons |-> [c \in CallIds |-> 0]]
    /\ workers = <<>>
    /\ handlers = <<>>
    /\ streams = <<>>
    /\ duplex = [s \in Sessions |-> {}]
    /\ dropped = {}

\* a daemon with idle_timeout = 0, no goroutine inside WriteMsg
InitDaemon ==
    /\ InitState
    /\ sw = [s \in Sessions |-> IdleWriter]
    /\ wd = [d \in Daemons |-> NoWatchdog]

\* requests of the registration runs
MaxAdds == 2

(* Registration: two clients of one daemon register protocols and disconnect. *)
InitReg ==
    /\ InitDaemon
    /\ dom = [sessions |-> {"s1", "s2"}, kinds |-> [s \in Sessions |-> {"AddUnaryHandler"}],
              calls |-> {"c1", BadCallId}, protos |-> Protos,
              callProtos |-> {}, peers |-> {}, reqPays |-> {}, respPays |-> {}]
    /\ quota = MaxAdds

NextReg ==
    \/ \E s \in Sessions : Connect(s)
    \/ \E s \in Sessions : ReadAddUnaryHandler(s)
    \/ \E s \in Sessions : ReadErr(s)
    \/ \E s \in Sessions : Cleanup(s)
    \/ \E w \in WorkerIds : AddHandler(w)
    \/ \E w \in WorkerIds : AppendStreamHandler(w)
    \/ \E w \in WorkerIds : WriteResponse(w)

SpecReg == InitReg /\ [][NextReg]_vars

\* requests of the outbound runs
MaxCalls == 2

(* Outbound calls: a client calls peers outside the model, cancels, disconnects. *)
InitOut ==
    /\ InitDaemon
    /\ dom = [sessions |-> {"s1"}, kinds |-> [s \in Sessions |-> {"CallUnary", "Cancel"}],
              calls |-> {"c1"}, protos |-> {},
              callProtos |-> {"p1"}, peers |-> {EnvPeer, BadPeer}, reqPays |-> {"x"},
              respPays |-> {"y"}]
    /\ quota = MaxCalls

NextOut ==
    \/ \E s \in Sessions : Connect(s)
    \/ \E s \in Sessions : ReadCallUnary(s)
    \/ \E s \in Sessions : ReadCancel(s)
    \/ \E s \in Sessions : ReadErr(s)
    \/ \E s \in Sessions : Cleanup(s)
    \/ \E w \in WorkerIds : CallStore(w)
    \/ \E w \in WorkerIds : CallOpen(w)
    \/ \E w \in WorkerIds : CallSelect(w)
    \/ \E w \in WorkerIds : CallWrite(w)
    \/ \E w \in WorkerIds : CallExit(w)
    \/ \E w \in WorkerIds : ExchangeWrite(w)
    \/ \E w \in WorkerIds : ExchangeRead(w)
    \/ \E w \in WorkerIds : ExchangeGiveUp(w)
    \/ \E w \in WorkerIds : CancelLoad(w)
    \/ \E w \in WorkerIds : CancelFire(w)
    \/ \E st \in StreamIds, pay \in dom.respPays : RemoteReply(st, pay)
    \/ \E st \in StreamIds : RemoteFail(st)

SpecOut == InitOut /\ [][NextOut]_vars

(* Two clients of one daemon: the first calls a peer, the second sends Cancel. *)
InitShared ==
    /\ InitDaemon
    /\ dom = [sessions |-> {"s1", "s2"},
              kinds |-> [s \in Sessions |-> IF s = "s1" THEN {"CallUnary"} ELSE {"Cancel"}],
              calls |-> {"c1"}, protos |-> {},
              callProtos |-> {"p1"}, peers |-> {EnvPeer, BadPeer}, reqPays |-> {"x"},
              respPays |-> {"y"}]
    /\ quota = MaxCalls

SpecShared == InitShared /\ [][NextOut]_vars

\* requests and remote streams of the inbound runs
MaxInbound == 3

\* what a remote peer may put on the wire: any call id, any peer field
WireRequests ==
    {WireMsg("CallUnary", c, peer, "p1", "x") :
        c \in {"c1", BadCallId}, peer \in {"A", EnvPeer}}

(* Inbound calls: a client registers a protocol, remote peers outside the *)
(* model open streams on it and hang up, the client answers.              *)
InitIn ==
    /\ InitDaemon
    /\ dom = [sessions |-> {"s1"},
              kinds |-> [s \in Sessions |-> {"AddUnaryHandler", "UnaryResponse"}],
              calls |-> {"c1"}, protos |-> {"p1"},
              callProtos |-> {}, peers |-> {}, reqPays |-> {}, respPays |-> {"y"}]
    /\ quota = MaxInbound

NextIn ==
    \/ \E s \in Sessions : Connect(s)
    \/ \E s \in Sessions : ReadAddUnaryHandler(s)
    \/ \E s \in Sessions : ReadUnaryResponse(s)
    \/ \E s \in Sessions : ReadErr(s)
    \/ \E s \in Sessions : Cleanup(s)
    \/ \E w \in WorkerIds : AddHandler(w)
    \/ \E w \in WorkerIds : AppendStreamHandler(w)
    \/ \E w \in WorkerIds : WriteResponse(w)
    \/ \E w \in WorkerIds : ResponseLookup(w)
    \/ \E d \in Daemons, p \in Protos, req \in WireRequests \cup {NoMsg} :
           RemoteOpen(d, p, req)
    \/ \E st \in StreamIds : RemoteHangUp(st)
    \/ \E h \in HandlerIds : HandlerRead(h)
    \/ \E h \in HandlerIds : HandlerStore(h)
    \/ \E h \in HandlerIds : HandlerNotify(h)
    \/ \E h \in HandlerIds : HandlerReadFailed(h)
    \/ \E h \in HandlerIds, w \in WorkerIds : HandlerReceive(h, w)
    \/ \E h \in HandlerIds : HandlerCancel(h)
    \/ \E h \in HandlerIds : HandlerReply(h)
    \/ \E h \in HandlerIds : HandlerExit(h)
    \/ \E h \in HandlerIds : AwaitReadReturns(h)
    \/ \E h \in HandlerIds : AwaitGiveUp(h)

SpecIn == InitIn /\ [][NextIn]_vars

(* Calls in either direction: the outbound runs and the inbound runs. *)
InitCalls == InitOut \/ InitIn

NextCalls == NextOut \/ NextIn

SpecCalls == InitCalls /\ [][NextCalls]_vars

\* requests of the two-daemon runs
MaxRequests == 3

(* Two daemons: the client s1 of A registers a protocol and answers the    *)
(* calls that the client s3 of B makes to A on it.  No client cancels, so  *)
(* the steps that need a fired token (the Cancel goroutine, the ctx.Done() *)
(* case of exchangeMessages, the hang-up of the caller while the handler   *)
(* waits) cannot happen and are left out of Next.                          *)
Init ==
    /\ InitDaemon
    /\ dom = [sessions |-> {"s1", "s3"},
              kinds |-> [s \in Sessions |->
                            IF s = "s3" THEN {"CallUnary"}
                            ELSE {"AddUnaryHandler", "UnaryResponse"}],
              calls |-> {"c1"}, protos |-> {"p1"},
              callProtos |-> {"p1"}, peers |-> {"A"}, reqPays |-> {"x"},
              respPays |-> {"y"}]
    /\ quota = MaxRequests

Next ==
    \/ \E s \in Sessions : Connect(s)
    \/ \E s \in Sessions : ReadAddUnaryHandler(s)
    \/ \E s \in Sessions : ReadCallUnary(s)
    \/ \E s \in Sessions : ReadUnaryResponse(s)
    \/ \E s \in Sessions : ReadErr(s)
    \/ \E s \in Sessions : Cleanup(s)
    \/ \E w \in WorkerIds : AddHandler(w)
    \/ \E w \in WorkerIds : AppendStreamHandler(w)
    \/ \E w \in WorkerIds : WriteResponse(w)
    \/ \E w \in WorkerIds : CallStore(w)
    \/ \E w \in WorkerIds : CallOpen(w)
    \/ \E w \in WorkerIds : CallSelect(w)
    \/ \E w \in WorkerIds : CallWrite(w)
    \/ \E w \in WorkerIds : CallExit(w)
    \/ \E w \in WorkerIds : ExchangeWrite(w)
    \/ \E w \in WorkerIds : ExchangeRead(w)
    \/ \E w \in WorkerIds : ResponseLookup(w)
    \/ \E h \in HandlerIds : HandlerRead(h)
    \/ \E h \in HandlerIds : HandlerStore(h)
    \/ \E h \in HandlerIds : HandlerNotify(h)
    \/ \E h \in HandlerIds, w \in WorkerIds : HandlerReceive(h, w)
    \/ \E h \in HandlerIds : HandlerReply(h)
    \/ \E h \in HandlerIds : HandlerExit(h)
    \/ \E h \in HandlerIds : AwaitReadReturns(h)
    \/ \E h \in HandlerIds : AwaitGiveUp(h)

Spec == Init /\ [][Next]_vars

(* Concurrent writes: the goroutines of one session write their frames. *)
InitWrite ==
    /\ InitState
    /\ dom = [sessions |-> {"s1"}, kinds |-> [s \in Sessions |-> {}],
              calls |-> {}, protos |-> {}, callProtos |-> {}, peers |-> {},
              reqPays |-> {}, respPays |-> {}]
    /\ quota = 0
    /\ wd = [d \in Daemons |-> NoWatchdog]
    /\ \E callers \in SUBSET Writers :
           sw = [s \in Sessions |->
                    IF s = "s1"
                    THEN [IdleWriter EXCEPT
                              !.left = [t \in Writers |->
                                           IF t \in callers
                                           THEN Cardinality(FramesOf(t)) ELSE 0]]
                    ELSE IdleWriter]

NextWrite ==
    \/ \E s \in dom.sessions : Connect(s)
    \/ \E s \in dom.sessions, t \in Writers : SwCall(s, t)
    \/ \E s \in dom.sessions, t \in Writers : SwLock(s, t)
    \/ \E s \in dom.sessions, t \in Writers : SwWriteHead(s, t)
    \/ \E s \in dom.sessions, t \in Writers : SwWriteBody(s, t)
    \/ \E s \in dom.sessions, t \in Writers : SwUnlock(s, t)

SpecWrite == InitWrite /\ [][NextWrite]_vars

(* Idle shutdown: daemons started with idle_timeout > 0, clients that connect *)
(* and disconnect, the watchdog.                                             *)
InitIdle ==
    /\ InitState
    /\ dom = [sessions |-> Sessions, kinds |-> [s \in Sessions |-> {}],
              calls |-> {}, protos |-> {}, callProtos |-> {}, peers |-> {},
              reqPays |-> {}, respPays |-> {}]
    /\ quota = 0
    /\ sw = [s \in Sessions |-> IdleWriter]
    /\ wd = [d \in Daemons |-> KillOnTimeout(NoWatchdog)]

NextIdle ==
    \/ \E s \in Sessions : Connect(s)
    \/ \E s \in Sessions : ReadErr(s)
    \/ \E s \in Sessions : Cleanup(s)
    \/ \E d \in Daemons : AwaitTermination(d)
    \/ \E d \in Daemons : RearmTimer(d)
    \/ \E d \in Daemons : TimerFires(d)

SpecIdle == InitIdle /\ [][NextIdle]_vars

---------------------------------------------------------------------------
(* Scheduling: a goroutine that can take a step eventually takes it.  The  *)
(* clients and the remote peers are under no obligation.                   *)

WorkerStep(w) ==
    /\ w \in WorkerIds
    /\ \/ AddHandler(w) \/ AppendStreamHandler(w) \/ WriteResponse(w)
       \/ CallStore(w) \/ CallOpen(w) \/ CallSelect(w) \/ CallWrite(w) \/ CallExit(w)
       \/ CancelLoad(w) \/ CancelFire(w)
       \/ ResponseLookup(w)

ExchangeStep(w) ==
    /\ w \in WorkerIds
    /\ (ExchangeWrite(w) \/ ExchangeRead(w) \/ ExchangeGiveUp(w))

HandlerStep(h) ==
    /\ h \in HandlerIds
    /\ \/ HandlerRead(h) \/ HandlerStore(h) \/ HandlerNotify(h) \/ HandlerReadFailed(h)
       \/ (\E w \in WorkerIds : HandlerReceive(h, w))
       \/ HandlerCancel(h) \/ HandlerReply(h) \/ HandlerExit(h)

AwaitStep(h) ==
    /\ h \in HandlerIds
    /\ (AwaitReadReturns(h) \/ AwaitGiveUp(h))

Fairness(n) ==
    /\ \A w \in 1 .. n : WF_vars(WorkerStep(w)) /\ WF_vars(ExchangeStep(w))
    /\ \A h \in 1 .. n : WF_vars(HandlerStep(h)) /\ WF_vars(AwaitStep(h))
    /\ \A s \in Sessions : WF_vars(Cleanup(s))

FairOut == SpecOut /\ Fairness(MaxCalls)

FairIn == SpecIn /\ Fairness(MaxInbound)

FairCalls == SpecCalls /\ Fairness(MaxCalls + MaxInbound)

---------------------------------------------------------------------------
(* Claims *)

CallWorkers == WorkersOf("CallUnary")

\* the frames the CallUnary goroutine w has handed to its session's writer
TerminalFrames(w) == FramesBy(workers[w].sess, <<"w", w>>)

\* C1: the goroutine of every accepted CallUnary hands exactly one response
\* frame to the session's writer, and that frame carries the call id of the
\* request: never two, never none once the goroutine is past its write.
C1_ExactlyOneTerminalFrame ==
    \A w \in CallWorkers :
        /\ Cardinality(TerminalFrames(w)) <= 1
        /\ workers[w].pc \in {"exit", "done"} => Cardinality(TerminalFrames(w)) = 1
        /\ \A f \in TerminalFrames(w) : f.call = workers[w].call

\* the remote peer of call w has neither answered nor failed
NeverAnswered(w) ==
    /\ workers[w].peer = EnvPeer
    /\ \/ workers[w].pc \in {"store", "open"}
       \/ /\ workers[w].st # 0
          /\ streams[workers[w].st].resp = NoMsg
          /\ ~streams[workers[w].st].calleeClosed

\* the Cancel requests read after CallUnary w on the same session with the
\* same call id, whose goroutine has ended
CancelsAfter(w) ==
    {k \in WorkersOf("Cancel") :
        /\ k > w
        /\ workers[k].sess = workers[w].sess
        /\ workers[k].call = workers[w].call
        /\ workers[k].pc = "done"}

\* C2: a Cancel sent after a CallUnary with the same call id, the peer never
\* replying, fires the token of that call, and the one response the client
\* gets for the call is Cancel.
C2_CancelAnswersCancel ==
    \A w \in CallWorkers :
        (NeverAnswered(w) /\ CancelsAfter(w) # {}) =>
            /\ workers[w].ctxDone
            /\ \A f \in TerminalFrames(w) : f.kind = "Cancel" /\ f.call = workers[w].call

\* call w is in flight although its session has ended
OrphanCall(w) ==
    /\ w \in CallWorkers
    /\ sess[workers[w].sess] = "ended"
    /\ workers[w].pc \in {"open", "select"}

\* C3: when a session ends, every CallUnary goroutine it started and that is
\* still in flight is cancelled and terminates, its entry removed from
\* cancelUnary, whether or not the remote peer replies.
C3_ShutdownCancelsCalls ==
    \A w \in 1 .. MaxCalls :
        OrphanCall(w) ~>
            (/\ w \in CallWorkers
             /\ workers[w].pc = "done"
             /\ cancelUnary[Home(workers[w].sess)][workers[w].call] # w)

AddWorkers == WorkersOf("AddUnaryHandler")

\* the AddUnaryHandler goroutines of daemon d for protocol p that have been
\* through doAddUnaryHandler
Decided(d, p) ==
    {w \in AddWorkers :
        /\ Home(workers[w].sess) = d
        /\ workers[w].proto = p
        /\ workers[w].pc # "add"}

\* C4: at any time at most one session that has not been cleaned up holds
\* protocol p in its streamHandlers; and as long as no session has been
\* cleaned up, of the AddUnaryHandler requests for p that have been decided
\* exactly one holds Ok and all the others hold DaemonError.
C4_ProtocolExclusivity ==
    \A d \in Daemons, p \in Protos :
        /\ Cardinality({s \in Sessions :
               Home(s) = d /\ sess[s] # "ended" /\ p \in streamHandlers[s]}) <= 1
        /\ (\A s \in Sessions : sess[s] # "ended") =>
               /\ \A w \in Decided(d, p) : workers[w].resp.kind \in {"Ok", "DaemonError"}
               /\ Decided(d, p) # {} =>
                      Cardinality({w \in Decided(d, p) : workers[w].resp.kind = "Ok"}) = 1

\* two sessions have asked for the same protocol, both requests are decided
C4_Witness ==
    \E v, w \in AddWorkers :
        /\ workers[v].sess # workers[w].sess
        /\ workers[v].proto = workers[w].proto
        /\ workers[v].resp.kind = "Ok"
        /\ workers[w].resp.kind = "DaemonError"
        /\ \A s \in Sessions : sess[s] # "ended"

\* C5: once a session has ended, no protocol for which its client was
\* answered Ok still has the session's handler installed on the Host.
C5_ShutdownDeregisters ==
    \A s \in Sessions :
        sess[s] = "ended" =>
            \A w \in AddWorkers :
                (/\ workers[w].sess = s
                 /\ \E f \in FramesBy(s, <<"w", w>>) : f.kind = "Ok" /\ f.ok)
                => hostHandlers[Home(s)][workers[w].proto] # s

\* C9: an Ok written for AddUnaryHandler{p} on session s comes after
\* SetStreamHandler(p, handler of s); while s is live that handler is the one
\* installed for p.
C9_OkImpliesInstalled ==
    \A w \in AddWorkers :
        \A f \in FramesBy(workers[w].sess, <<"w", w>>) :
            f.kind = "Ok" =>
                /\ <<workers[w].proto, workers[w].sess>> \in everInstalled
                /\ sess[workers[w].sess] = "live" =>
                       /\ hostHandlers[Home(workers[w].sess)][workers[w].proto]
                              = workers[w].sess
                       /\ registeredUnaryProtocols[Home(workers[w].sess)][workers[w].proto]

\* an Ok has reached the client of a live session
C9_Witness ==
    \E w \in AddWorkers :
        /\ sess[workers[w].sess] = "live"
        /\ \E f \in FramesBy(workers[w].sess, <<"w", w>>) : f.kind = "Ok" /\ f.ok

ResponseWorkers == WorkersOf("UnaryResponse")

\* C6: the goroutine of every UnaryResponse request writes exactly one reply
\* and ends: DaemonError when its lookup found no channel, Ok when it found
\* one, the request then being delivered on that channel.
C6_ResponseWorkerCompletes ==
    \A w \in 1 .. MaxInbound :
        (w \in ResponseWorkers) ~>
            (/\ w \in ResponseWorkers
             /\ workers[w].pc = "done"
             /\ \E f \in FramesBy(workers[w].sess, <<"w", w>>) :
                    /\ FramesBy(workers[w].sess, <<"w", w>>) = {f}
                    /\ f.kind = IF workers[w].tgt = 0 THEN "DaemonError" ELSE "Ok")

\* the frames handler h has handed to its session's writer
HandlerFrames(h, kind) ==
    {f \in FramesBy(handlers[h].sess, <<"h", h>>) : f.kind = kind}

\* C7: when the remote caller hangs up before the answer, the client gets
\* RequestHandling and then one Cancel for the call, nothing is written to
\* the remote stream, and a UnaryResponse that the client sends after that
\* Cancel is answered DaemonError.
C7_HalfCloseThenError ==
    /\ \A h \in HandlerIds :
           HandlerFrames(h, "Cancel") # {} =>
               /\ Cardinality(HandlerFrames(h, "Cancel")) = 1
               /\ \E f \in HandlerFrames(h, "RequestHandling") :
                      f.ok /\ f.call = handlers[h].call
               /\ streams[handlers[h].st].resp = NoMsg
    /\ \A w \in ResponseWorkers :
           (workers[w].late /\ workers[w].pc # "lookup") =>
               /\ workers[w].resp.kind = "DaemonError"
               /\ workers[w].pc \in {"write", "done"}

\* the CallUnary goroutines whose stream handler h serves
CallersOf(h) == {w \in CallWorkers : workers[w].st = handlers[h].st}

\* the UnaryResponse goroutines whose request handler h has received
DeliveredTo(h) ==
    {r \in ResponseWorkers : workers[r].tgt = h /\ workers[r].resp.kind = "Ok"}

\* C8: a call from the client of B to A on a protocol registered by the client
\* of A gives that client one RequestHandling with B as peer and the
\* protocol, call id and payload of the call; the CallUnaryResponse that the
\* client of B gets carries the payload of the UnaryResponse that was
\* delivered to the handler, and it gets it once that response is on the stream.
C8_UnaryRoundTrip ==
    /\ \A h \in HandlerIds :
           /\ Cardinality(HandlerFrames(h, "RequestHandling")) <= 1
           /\ handlers[h].pc \in {"select", "reply"} =>
                  \E f \in HandlerFrames(h, "RequestHandling") : f.ok
           /\ \A f \in HandlerFrames(h, "RequestHandling") :
                  \E w \in CallersOf(h) :
                      /\ f.peer = Home(workers[w].sess)
                      /\ f.proto = workers[w].proto
                      /\ f.pay = workers[w].pay
                      /\ f.call = workers[w].call
    /\ \A w \in CallWorkers :
           /\ \A f \in TerminalFrames(w) :
                  f.kind = "CallUnaryResponse" =>
                      /\ f.call = workers[w].call
                      /\ \E h \in HandlerIds :
                             /\ w \in CallersOf(h)
                             /\ \E r \in DeliveredTo(h) : f.pay = workers[r].pay
           /\ (/\ workers[w].pc \in {"exit", "done"}
               /\ workers[w].st # 0
               /\ streams[workers[w].st].resp # NoMsg)
              => \E f \in TerminalFrames(w) :
                     /\ TerminalFrames(w) = {f}
                     /\ f.kind = "CallUnaryResponse"
                     /\ f.pay = streams[workers[w].st].resp.pay

\* the round trip has completed: the client of A has had RequestHandling
\* from peer B, the client of B has had CallUnaryResponse with the payload
\* of A's UnaryResponse
C8_Witness ==
    \E w \in CallWorkers, h \in HandlerIds :
        /\ w \in CallersOf(h)
        /\ workers[w].pc = "done"
        /\ \E f \in HandlerFrames(h, "RequestHandling") : f.ok /\ f.peer = "B" /\ f.pay = "x"
        /\ \E f \in TerminalFrames(w) : f.ok /\ f.kind = "CallUnaryResponse" /\ f.pay = "y"

\* the goroutine holds or is about to delete what it stored
CallRunning(w) ==
    /\ w \in CallWorkers
    /\ workers[w].pc \in {"open", "select", "write", "exit"}

HandlerRunning(h) ==
    /\ h \in HandlerIds
    /\ handlers[h].pc \in {"notify", "select", "cancel", "reply", "exit"}

\* C10: an entry of cancelUnary or of responseWaiters belongs to a goroutine
\* that stored it and has not returned yet, whichever way it returns; so when
\* no such goroutine is running both maps are empty.
C10_NoRegistryLeaks ==
    /\ \A d \in Daemons, c \in CallIds :
           /\ cancelUnary[d][c] # 0 =>
                  /\ CallRunning(cancelUnary[d][c])
                  /\ workers[cancelUnary[d][c]].call = c
                  /\ Home(workers[cancelUnary[d][c]].sess) = d
           /\ responseWaiters[d][c] # 0 =>
                  /\ HandlerRunning(responseWaiters[d][c])
                  /\ handlers[responseWaiters[d][c]].call = c
                  /\ handlers[responseWaiters[d][c]].d = d
    /\ (\A w \in WorkerIds : ~CallRunning(w)) =>
           \A d \in Daemons, c \in CallIds : cancelUnary[d][c] = 0
    /\ (\A h \in HandlerIds : ~HandlerRunning(h)) =>
           \A d \in Daemons, c \in CallIds : responseWaiters[d][c] = 0

\* a call has been cancelled by its client and its goroutine has returned
C10_Witness ==
    \E w \in CallWorkers :
        /\ workers[w].pc = "done"
        /\ workers[w].st # 0
        /\ \E f \in TerminalFrames(w) : f.kind = "Cancel"
        /\ \A d \in Daemons, c \in CallIds : cancelUnary[d][c] = 0

\* the registry, the Host handler table, the sessions' registered sets and
\* the sessions themselves
Registration == <<registeredUnaryProtocols, hostHandlers, streamHandlers, sess>>

\* goroutine w moves from pc value from to another one in this step
Leaves(w, from) ==
    /\ w \in WorkerIds
    /\ workers[w].pc = from
    /\ workers'[w].pc # from

\* C11: an AddUnaryHandler for a protocol that is registered gets
\* DaemonError "handler for protocol p already set" with the call id of the
\* request; deciding it, recording it and writing it leave the registry, the
\* Host handler table, the registered sets and the sessions as they were.
C11_DuplicateHandlerError ==
    [][\A w \in AddWorkers :
          LET d == Home(workers[w].sess)
              p == workers[w].proto
              e == [kind |-> "DaemonError", call |-> workers[w].call, pay |-> NoPay,
                    msg |-> <<"handler for protocol", p, "already set">>]
          IN  /\ (Leaves(w, "add") /\ registeredUnaryProtocols[d][p]) =>
                     /\ workers'[w].resp = e
                     /\ UNCHANGED Registration
              /\ (Leaves(w, "append") /\ workers[w].resp.kind = "DaemonError") =>
                     UNCHANGED Registration
              /\ (Leaves(w, "write") /\ workers[w].resp.kind = "DaemonError") =>
                     /\ workers[w].resp = e
                     /\ \E f \in FramesBy(workers[w].sess, <<"w", w>>)' :
                            f.kind = e.kind /\ f.call = e.call /\ f.msg = e.msg
                     /\ UNCHANGED Registration]_vars

\* the client of a live session has been told that the protocol is taken
C11_Witness ==
    \E w \in AddWorkers :
        /\ sess[workers[w].sess] = "live"
        /\ workers[w].pc = "done"
        /\ \E f \in FramesBy(workers[w].sess, <<"w", w>>) :
               f.ok /\ f.kind = "DaemonError" /\ f.msg = AlreadySet(workers[w].proto)

CancelWorkers == WorkersOf("Cancel")

\* C12: a Cancel whose call id has no entry in cancelUnary writes no frame
\* and changes neither map, nor the registry, nor any other goroutine (the
\* tokens of the other calls included); and no step of a Cancel goroutine
\* writes a frame, found or not.
C12_CancelUnknownIsNoOp ==
    [][\A w \in CancelWorkers :
          /\ (Leaves(w, "load") /\ cancelUnary[Home(workers[w].sess)][workers[w].call] = 0)
                 => /\ workers'[w].pc = "done"
                    /\ \A k \in WorkerIds \ {w} : workers'[k] = workers[k]
                    /\ UNCHANGED <<cancelUnary, responseWaiters, Registration,
                                   handlers, streams, duplex>>
          /\ (Leaves(w, "load") \/ Leaves(w, "fire")) =>
                 /\ UNCHANGED duplex
                 /\ FramesBy(workers[w].sess, <<"w", w>>) = {}]_vars

\* a Cancel has found nothing under its call id while a call was in flight
C12_Witness ==
    \E w \in CancelWorkers, k \in CallWorkers :
        /\ workers[w].pc = "done"
        /\ workers[w].tgt = 0
        /\ workers[k].pc \in {"store", "open", "select"}
        /\ ~workers[k].ctxDone

\* the goroutines inside sw.w.WriteMsg on the writer of session s
Inside(s) == {t \in Writers : sw[s].at[t] \in {"head", "body"}}

\* the frames that the goroutines of session s have been through WriteMsg with
Written(s) ==
    {<<t, n>> : t \in Writers, n \in 1 .. 2} \cap
    {<<sw[s].wire[i][1], sw[s].wire[i][2]>> : i \in 1 .. Len(sw[s].wire)}

\* C13: at most one goroutine is inside the write of the underlying writer
\* of a session, whichever of the session's goroutines and stream handlers
\* are writing; what is on the connection is a sequence of whole frames, the
\* prefix of each followed at once by its own bytes, one per WriteMsg.
C13_AtomicWrites ==
    \A s \in Sessions :
        LET wire == sw[s].wire
        IN  /\ Cardinality(Inside(s)) <= 1
            /\ \A i \in 1 .. Len(wire) :
                   /\ wire[i][3] = "head" =>
                          IF i = Len(wire)
                          THEN sw[s].at[wire[i][1]] = "body"
                          ELSE wire[i + 1] = <<wire[i][1], wire[i][2], "body">>
                   /\ wire[i][3] = "body" =>
                          i > 1 /\ wire[i - 1] = <<wire[i][1], wire[i][2], "head">>
            /\ Inside(s) = {} => Len(wire) = 2 * Cardinality(Written(s))

\* three goroutines and a stream handler have written their five frames
C13_Witness ==
    /\ \A t \in Writers : sw["s1"].at[t] = "idle" /\ sw["s1"].left[t] = 0
    /\ Len(sw["s1"].wire) = 10

\* C14: a request whose call_id does not parse starts no goroutine: the
\* step that drops it writes no frame and changes no map, no registry and
\* no session, whose read loop goes on; no goroutine ever runs for such a
\* request.
C14_MalformedCallIdDropped ==
    [][/\ dropped' # dropped =>
              UNCHANGED <<Registration, everInstalled, terminateWG, cancelUnary,
                          responseWaiters, workers, handlers, streams, duplex>>
       /\ \A w \in DOMAIN workers' : workers'[w].call # BadCallId]_vars

\* a request was dropped, and the next request of the session has been
\* answered Ok
C14_Witness ==
    \E e \in dropped :
        /\ sess[e[1]] = "live"
        /\ Len(workers) > e[2]
        /\ workers[e[2] + 1].sess = e[1]
        /\ \E f \in FramesBy(e[1], <<"w", e[2] + 1>>) : f.ok /\ f.kind = "Ok"

\* C15: the peer of every RequestHandling handed to the writer of the client
\* is the remote peer of the connection that the stream came in on, whatever
\* peer the request on the stream names; the rest of the notification is
\* what the request carries.
C15_VerifiedCallerIdentity ==
    \A h \in HandlerIds :
        \A f \in HandlerFrames(h, "RequestHandling") :
            /\ f.peer = streams[handlers[h].st].callerPeer
            /\ f.call = streams[handlers[h].st].req.call
            /\ f.proto = streams[handlers[h].st].req.proto
            /\ f.pay = streams[handlers[h].st].req.pay

\* two streams from the same remote peer, whose requests differ in the peer
\* they name and in nothing else, have led to the same notification
C15_Witness ==
    \E g, h \in HandlerIds :
        /\ streams[handlers[g].st].callerPeer = streams[handlers[h].st].callerPeer
        /\ streams[handlers[g].st].req.peer # streams[handlers[h].st].req.peer
        /\ streams[handlers[g].st].req.peer # streams[handlers[g].st].callerPeer
        /\ \E e \in HandlerFrames(g, "RequestHandling"), f \in HandlerFrames(h, "RequestHandling") :
               [e EXCEPT !.by = 0] = [f EXCEPT !.by = 0]

\* the sessions of daemon d whose read loop is running
LiveSessions(d) == {s \in Sessions : Home(s) = d /\ sess[s] = "live"}

\* C16: while a session of a daemon is live its idle timer is not armed, and
\* the daemon has not exited through it.
C16_NoTimerWhileLive ==
    \A d \in Daemons :
        LiveSessions(d) # {} => ~wd[d].armed /\ ~wd[d].exited

\* C17: the counter of terminateWG of a daemon is never negative and is the
\* number of its live sessions.
C17_CounterIsLiveSessions ==
    \A d \in Daemons :
        /\ terminateWG[d] >= 0
        /\ terminateWG[d] = Cardinality(LiveSessions(d))

\* two sessions of one daemon are live together, after another has ended
C17_Witness ==
    \E d \in Daemons :
        /\ Cardinality(LiveSessions(d)) = 2
        /\ terminateWG[d] = 2
        /\ \E s \in Sessions : sess[s] = "ended"

\* C18: the frame that a CallUnary goroutine hands to the writer is a
\* CallUnaryResponse (the remote response was read), a Cancel or a
\* DaemonError, and it carries the call id of the request.
C18_TerminalFrameKind ==
    \A w \in CallWorkers :
        \A f \in TerminalFrames(w) :
            /\ f.kind \in {"CallUnaryResponse", "Cancel", "DaemonError"}
            /\ f.call = workers[w].call
            /\ f.kind = "CallUnaryResponse" =>
                   /\ workers[w].st # 0
                   /\ streams[workers[w].st].resp # NoMsg

\* the frames that stream handlers have handed to the writer of session s
FromHandlers(s) == {f \in duplex[s] : f.by[1] = "h"}

\* C19: once a session has ended no stream handler hands a RequestHandling
\* or a Cancel to its writer.
C19_NoWriteAfterEnd ==
    [][\A s \in Sessions :
          sess[s] = "ended" => FromHandlers(s)' \subseteq FromHandlers(s)]_vars

\* the token of call w fires in this step
Fired(w) == workers'[w].ctxDone /\ ~workers[w].ctxDone

\* C20: the step of a Cancel goroutine that calls a CancelFunc fires the
\* token of a call of the session that the Cancel came in on, never that of
\* a call of another session.
C20_CancelIsolation ==
    [][\A k \in CancelWorkers :
          Leaves(k, "fire") =>
              \A w \in CallWorkers : Fired(w) => workers[w].sess = workers[k].sess]_vars

\* C21: from its Store until it has written its response, the entry of
\* cancelUnary under the call id of a CallUnary goroutine is the CancelFunc
\* of that goroutine, whatever other calls with the same id do.
C21_EntryTracksOwnCall ==
    \A w \in CallWorkers :
        workers[w].pc \in {"open", "select", "write"} =>
            cancelUnary[Home(workers[w].sess)][workers[w].call] = w

\* the goroutine of exchangeMessages of call w has returned
ExchangeReturned(w) == workers[w].xpc = "closed"

\* the goroutine of awaitReadFail of handler h has returned
AwaitReturned(h) == handlers[h].apc = "closed"

\* C22: once a CallUnary goroutine that opened a stream has returned, the
\* goroutine of its exchangeMessages returns; once a stream handler that
\* reached its select has returned, the goroutine of its awaitReadFail returns.
C22_HelpersTerminate ==
    /\ \A w \in 1 .. (MaxCalls + MaxInbound) :
           (w \in CallWorkers /\ workers[w].pc = "done" /\ workers[w].st # 0)
               ~> (w \in CallWorkers /\ ExchangeReturned(w))
    /\ \A h \in 1 .. (MaxCalls + MaxInbound) :
           (h \in HandlerIds /\ handlers[h].pc = "done" /\ handlers[h].apc # "none")
               ~> (h \in HandlerIds /\ AwaitReturned(h))

=============================================================================
